---- MODULE Spec2Model ----
(***************************************************************************)
(* HashConnect (src/lib/src/hashconnect.ts): the session and pairing       *)
(* orchestration layer.  Text is modelled as a sequence of UTF-16 code     *)
(* units (integers), binary data as a sequence of bytes.  The transport    *)
(* (relay) is a log of the requests handed to it; each request is a        *)
(* promise that is pending until the transport resolves or rejects it.     *)
(* An async method runs atomically up to its await; the continuation runs  *)
(* in the step that settles the awaited promise.                           *)
(***************************************************************************)
EXTENDS Integers, Sequences, FiniteSets, TLC

VARIABLES
    metadata,        \* this.metadata
    privateKey,      \* this.privateKey
    publicKeys,      \* this.publicKeys : Record<string, string>
    calls,           \* the promises returned by the async methods, in call order
    relayLog,        \* the requests handed to this.relay, in call order
    decryptionKeys,  \* keys given to relay.addDecryptionKey
    nextId,          \* message ids handed out by prepareSimpleMessage
    listeners,       \* invocations of the relay.payload listener, in delivery order
    events,          \* values emitted on the event channels, in emission order
    pairingString,   \* argument of decodePairingString
    decoded,         \* outcome of decodePairingString
    pairingCall,     \* arguments of the last generatePairingString call
    rawString,       \* a string given to sanitizeString
    sanitized        \* results of sanitizeString on rawString, then on its own result

vars == <<metadata, privateKey, publicKeys, calls, relayLog, decryptionKeys,
          nextId, listeners, events, pairingString, decoded, pairingCall,
          rawString, sanitized>>

outVars == <<metadata, privateKey, publicKeys, calls, relayLog, decryptionKeys, nextId>>
inVars == <<listeners, events>>
codecVars == <<pairingString, decoded, pairingCall>>
textVars == <<rawString, sanitized>>

(***************************************************************************)
(* Bounds of the model.                                                    *)
(***************************************************************************)
MaxCalls == 3
MaxPayloads == 3
MaxStrLen == 3
MaxPasses == 2
MaxTokens == 2

(***************************************************************************)
(* Values.                                                                 *)
(***************************************************************************)
Undefined == "undefined"

\* Topic identifiers as createRandomTopicId produces them: non-empty strings.
Topics == {"t1", "t2"}
\* Counterparty public keys (base64 strings).
Keys == {"k1", "k2"}
\* Private keys a caller may pass to init, and those generatePrivateKey may draw.
SuppliedPrivKeys == {"p1"}
GeneratedPrivKeys == {"g1"}

\* "http://a.b"
WindowOrigin == <<104, 116, 116, 112, 58, 47, 47, 97, 46, 98>>

\* "a/b"
Networks == {<<97, 47, 98>>}
\* "A&B.C"
Reasons == {<<65, 38, 66, 46, 67>>}
AccountLists == {<<"0.0.123">>}
MsgIds == {"msg-42"}
\* byte arrays of a transaction
ByteArrays == {<<255, 0, 16, 7>>}

NoMetadata == [defined |-> FALSE]
\* name "A&B", description "x y", icon "i", url "u"
MetadataInputs ==
    { [defined |-> TRUE, name |-> <<65, 38, 66>>, description |-> <<120, 32, 121>>,
       icon |-> <<105>>, url |-> <<117>>, publicKey |-> Undefined] }

\* the topics the application sends on, and those of the pairing strings it is given
SendTopics == {"t1"}
PairingTopics == {"t2"}
\* the topics connect is given counterparty metadata for, and the publicKey of that metadata
MetadataTopics == {"t1"}
ConnectKeys == {"k1"}
\* pairingData.metadata.publicKey in pair (an optional field)
PairingKeys == {"k2", Undefined}
\* pubKey in acknowledge
AckKeys == {"k2"}

(***************************************************************************)
(* sanitizeString: str.replace(/[^\w. ]/gi, c => '&#' + c.charCodeAt(0) + ';') *)
(***************************************************************************)
IsWordChar(c) ==
    \/ c >= 48 /\ c <= 57
    \/ c >= 65 /\ c <= 90
    \/ c >= 97 /\ c <= 122
    \/ c = 95

\* a variant of the character class in which the space is not safe
MatchesUnsafeSpace(c) == ~(IsWordChar(c) \/ c = 46)

\* the character class [^\w. ]
MatchesUnsafe(c) == ~(IsWordChar(c) \/ c = 46 \/ c = 32)

RECURSIVE Decimal(_)
Decimal(n) == IF n < 10 THEN <<48 + n>> ELSE Decimal(n \div 10) \o <<48 + (n % 10)>>

\* a variant of the replacer that leaves out the closing ';'
ReplacerNoTerminator(c) == IF c = 46 THEN <<46>> ELSE <<38, 35>> \o Decimal(c)

\* the replacer function
Replacer(c) == IF c = 46 THEN <<46>> ELSE <<38, 35>> \o Decimal(c) \o <<59>>

\* the concatenation of a sequence of sequences
RECURSIVE Flatten(_)
Flatten(ss) ==
    IF Len(ss) = 0 THEN <<>>
    ELSE IF Len(ss) = 1 THEN ss[1]
    ELSE Flatten(SubSeq(ss, 1, Len(ss) \div 2))
         \o Flatten(SubSeq(ss, Len(ss) \div 2 + 1, Len(ss)))

sanitizeString(str) ==
    Flatten([i \in 1..Len(str) |->
                IF MatchesUnsafe(str[i]) THEN Replacer(str[i]) ELSE <<str[i]>>])

(***************************************************************************)
(* Buffer.from(bytes).toString("base64")                                   *)
(***************************************************************************)
B64Char(v) ==
    IF v < 26 THEN 65 + v
    ELSE IF v < 52 THEN 97 + (v - 26)
    ELSE IF v < 62 THEN 48 + (v - 52)
    ELSE IF v = 62 THEN 43 ELSE 47

\* three bytes give four characters; a last group of one or two bytes is padded
\* with '='
Base64Encode(b) ==
    LET ByteAt(i) == IF i <= Len(b) THEN b[i] ELSE 0
    IN [k \in 1..(4 * ((Len(b) + 2) \div 3)) |->
          LET g == ((k - 1) \div 4) * 3
          IN CASE (k - 1) % 4 = 0 -> B64Char(ByteAt(g + 1) \div 4)
               [] (k - 1) % 4 = 1 ->
                      B64Char((ByteAt(g + 1) % 4) * 16 + (ByteAt(g + 2) \div 16))
               [] (k - 1) % 4 = 2 ->
                      IF g + 2 > Len(b) THEN 61
                      ELSE B64Char((ByteAt(g + 2) % 16) * 4 + (ByteAt(g + 3) \div 64))
               [] OTHER ->
                      IF g + 3 > Len(b) THEN 61 ELSE B64Char(ByteAt(g + 3) % 64)]

(***************************************************************************)
(* Collaborators.                                                          *)
(***************************************************************************)
\* js-waku getPublicKey: deterministic, one public key per private key
getPublicKey(priv) ==
    CASE priv = "p1" -> "P1"
      [] priv = "g1" -> "G1"
      [] OTHER -> "P?"

\* messages.prepareSimpleMessage(type, data, hc): an envelope with a fresh id (a
\* string)
prepareSimpleMessage(type, data) == [type |-> type, id |-> ToString(nextId), data |-> data]

NoEnvelope == [type |-> "none", id |-> "none", data |-> <<>>]

\* this.publicKeys[topic]
Lookup(reg, topic) == IF topic \in DOMAIN reg THEN reg[topic] ELSE Undefined

\* variants of the assignment: one that keeps an existing entry, one that writes
\* the key into every entry
RegisterIfAbsent(reg, topic, key) == IF topic \in DOMAIN reg THEN reg ELSE (topic :> key) @@ reg
RegisterShared(reg, topic, key) == [t \in DOMAIN reg \cup {topic} |-> key]

\* this.publicKeys[topic] = key
Register(reg, topic, key) == (topic :> key) @@ reg

\* a request handed to the relay: a pending promise
Request(kind, topic, env, key, call, awaited) ==
    [kind |-> kind, topic |-> topic, env |-> env, key |-> key,
     call |-> call, awaited |-> awaited, status |-> "pending"]

\* the promise an async method returns
Call(op, topic, key, network, accounts) ==
    [op |-> op, topic |-> topic, key |-> key, network |-> network,
     accounts |-> accounts, status |-> "pending", value |-> Undefined]

ConnectionState(topic) == [topic |-> topic, expires |-> 0]

NewCall == Len(calls) + 1
CanCall == Len(calls) < MaxCalls

Settled(i, ok) == [relayLog EXCEPT ![i].status = IF ok THEN "resolved" ELSE "rejected"]
Fulfil(c, v) == [calls EXCEPT ![c].status = "fulfilled", ![c].value = v]
Reject(c, e) == [calls EXCEPT ![c].status = "rejected", ![c].value = e]

\* a pending request of kind k awaited by a call of operation op
Awaiting(i, kinds, ops) ==
    /\ i \in DOMAIN relayLog
    /\ relayLog[i].status = "pending"
    /\ relayLog[i].awaited
    /\ relayLog[i].kind \in kinds
    /\ calls[relayLog[i].call].op \in ops

(***************************************************************************)
(* init(metadata, privKey?)                                                *)
(***************************************************************************)
init(md, privKey) ==
    /\ CanCall
    /\ \E generated \in GeneratedPrivKeys :
         LET key == IF privKey = Undefined THEN generated ELSE privKey
         IN /\ privateKey' = key
            /\ metadata' = [md EXCEPT !.publicKey = getPublicKey(key),
                                      !.url = WindowOrigin]
            /\ calls' = Append(calls, [Call("init", Undefined, Undefined, <<>>, <<>>)
                                         EXCEPT !.value = [privKey |-> key]])
    /\ relayLog' = Append(relayLog, Request("init", Undefined, NoEnvelope, Undefined, NewCall, TRUE))
    /\ UNCHANGED <<publicKeys, decryptionKeys, nextId>>

initResume(i, ok) ==
    /\ Awaiting(i, {"init"}, {"init"})
    /\ relayLog' = Settled(i, ok)
    /\ LET c == relayLog[i].call
       IN IF ok
          THEN /\ decryptionKeys' = decryptionKeys \cup {privateKey}
               /\ calls' = Fulfil(c, calls[c].value)
          ELSE /\ decryptionKeys' = decryptionKeys
               /\ calls' = Reject(c, "TransportFailure")
    /\ UNCHANGED <<metadata, privateKey, publicKeys, nextId>>

(***************************************************************************)
(* connect(topic?, metadataToConnect?)                                     *)
(***************************************************************************)
\* a variant of connect that does not register the key
connectStartNoRegister(reg, topic, hasMetadata, key) == reg

\* lines 80-94: the part of connect before its await; hasMetadata says whether
\* metadataToConnect was passed, key is its publicKey
connectStart(reg, topic, hasMetadata, key) ==
    IF hasMetadata THEN Register(reg, topic, key) ELSE reg

connect(topicArg, hasMetadata, key) ==
    /\ CanCall
    /\ \E random \in Topics :
         LET topic == IF topicArg = Undefined THEN random ELSE topicArg
         IN /\ publicKeys' = connectStart(publicKeys, topic, hasMetadata, key)
            /\ calls' = Append(calls, Call("connect", topic, key, <<>>, <<>>))
            /\ relayLog' = Append(relayLog,
                   Request("subscribe", topic, NoEnvelope, Undefined, NewCall, TRUE))
    /\ UNCHANGED <<metadata, privateKey, decryptionKeys, nextId>>

connectResume(i, ok) ==
    /\ Awaiting(i, {"subscribe"}, {"connect"})
    /\ relayLog' = Settled(i, ok)
    /\ LET c == relayLog[i].call
       IN calls' = IF ok THEN Fulfil(c, ConnectionState(relayLog[i].topic))
                         ELSE Reject(c, "TransportFailure")
    /\ UNCHANGED <<metadata, privateKey, publicKeys, decryptionKeys, nextId>>

(***************************************************************************)
(* Send functions (lines 118-151), reject (179-193), acknowledge (195-204) *)
(***************************************************************************)
\* a variant that reads the key of some registered topic instead of the topic's own
RecipientKeyAnyTopic(reg, topic) ==
    IF DOMAIN reg = {} THEN Undefined ELSE reg[CHOOSE t \in DOMAIN reg : TRUE]

\* the third argument of relay.publish in the send functions, pair and reject
RecipientKey(reg, topic) == Lookup(reg, topic)

\* build the envelope, hand it to relay.publish and await the result
Publish(op, type, topic, data, key) ==
    /\ CanCall
    /\ calls' = Append(calls, Call(op, topic, key, <<>>, <<>>))
    /\ relayLog' = Append(relayLog,
           Request("publish", topic, prepareSimpleMessage(type, data), key, NewCall, TRUE))
    /\ nextId' = nextId + 1
    /\ UNCHANGED <<metadata, privateKey, publicKeys, decryptionKeys>>

sendTransaction(topic, byteArray) ==
    Publish("sendTransaction", "Transaction", topic,
            [byteArray |-> Base64Encode(byteArray), topic |-> topic],
            RecipientKey(publicKeys, topic))

requestAdditionalAccounts(topic) ==
    Publish("requestAdditionalAccounts", "AdditionalAccountRequest", topic,
            [topic |-> topic], RecipientKey(publicKeys, topic))

sendAdditionalAccounts(topic, accountIds) ==
    Publish("sendAdditionalAccounts", "AdditionalAccountResponse", topic,
            [accountIds |-> accountIds, topic |-> topic],
            RecipientKey(publicKeys, topic))

sendTransactionResponse(topic) ==
    Publish("sendTransactionResponse", "TransactionResponse", topic,
            [topic |-> topic], RecipientKey(publicKeys, topic))

\* a variant of reject that publishes the reason as it was given
rejectUnsanitized(topic, reason, msg_id) ==
    Publish("reject", "RejectPairing", topic,
            [reason |-> reason, topic |-> topic, msg_id |-> msg_id],
            RecipientKey(publicKeys, topic))

reject(topic, reason, msg_id) ==
    Publish("reject", "RejectPairing", topic,
            [reason |-> sanitizeString(reason), topic |-> topic, msg_id |-> msg_id],
            RecipientKey(publicKeys, topic))

\* a variant of acknowledge that addresses the envelope by the registry
acknowledgeByRegistry(topic, pubKey, msg_id) ==
    Publish("acknowledge", "Acknowledge", topic,
            [result |-> TRUE, topic |-> topic, msg_id |-> msg_id],
            RecipientKey(publicKeys, topic))

acknowledge(topic, pubKey, msg_id) ==
    Publish("acknowledge", "Acknowledge", topic,
            [result |-> TRUE, topic |-> topic, msg_id |-> msg_id], pubKey)

SendOps == {"sendTransaction", "requestAdditionalAccounts", "sendAdditionalAccounts",
            "sendTransactionResponse", "reject", "acknowledge"}

\* a variant in which no operation returns a value
ReturnValueNone(op, env) == Undefined

\* what the operation returns once its publish has resolved: msg.id in the four
\* send functions; reject and acknowledge have no return statement
ReturnValue(op, env) == IF op \in {"reject", "acknowledge"} THEN Undefined ELSE env.id

\* the continuation after "await this.relay.publish(...)"
publishResume(i, ok) ==
    /\ Awaiting(i, {"publish"}, SendOps)
    /\ relayLog' = Settled(i, ok)
    /\ LET c == relayLog[i].call
       IN calls' = IF ok THEN Fulfil(c, ReturnValue(calls[c].op, relayLog[i].env))
                         ELSE Reject(c, "TransportFailure")
    /\ UNCHANGED <<metadata, privateKey, publicKeys, decryptionKeys, nextId>>

(***************************************************************************)
(* pair(pairingData, accounts, network)                                    *)
(***************************************************************************)
\* a variant of pair that registers the counterparty key before it subscribes
pairRegistersFirst(topic, key, accounts, network) ==
    /\ CanCall
    /\ metadata.defined
    /\ calls' = Append(calls, Call("pair", topic, key, network, accounts))
    /\ relayLog' = Append(relayLog,
           Request("subscribe", topic, NoEnvelope, Undefined, NewCall, TRUE))
    /\ publicKeys' = Register(publicKeys, topic, key)
    /\ UNCHANGED <<metadata, privateKey, decryptionKeys, nextId>>

\* line 155: let state = await this.connect(pairingData.topic)
pair(topic, key, accounts, network) ==
    /\ CanCall
    /\ metadata.defined
    /\ calls' = Append(calls, Call("pair", topic, key, network, accounts))
    /\ relayLog' = Append(relayLog,
           Request("subscribe", topic, NoEnvelope, Undefined, NewCall, TRUE))
    /\ publicKeys' = connectStart(publicKeys, topic, FALSE, Undefined)
    /\ UNCHANGED <<metadata, privateKey, decryptionKeys, nextId>>

\* lines 164-167: the free text of the shared metadata object, sanitized in place
SanitizeMetadata(md) ==
    [md EXCEPT !.description = sanitizeString(@),
               !.name = sanitizeString(@),
               !.url = sanitizeString(@)]

\* a variant of pair that awaits its publish
pairAwaitsPublishTrue == TRUE

\* line 174: whether pair awaits the promise of its publish
pairAwaitsPublish == FALSE

\* lines 157-176, after the subscribe of line 155 has settled
pairResume(i, ok) ==
    /\ Awaiting(i, {"subscribe"}, {"pair"})
    /\ LET c == relayLog[i].call
           topic == calls[c].topic
           md == SanitizeMetadata(metadata)
           msg == [metadata |-> md, topic |-> topic,
                   accountIds |-> calls[c].accounts,
                   network |-> sanitizeString(calls[c].network)]
           reg == Register(publicKeys, topic, calls[c].key)
           payload == prepareSimpleMessage("ApprovePairing", msg)
       IN IF ok
          THEN /\ metadata' = md
               /\ publicKeys' = reg
               /\ relayLog' = Append(Settled(i, ok),
                      Request("publish", topic, payload, RecipientKey(reg, topic),
                              c, pairAwaitsPublish))
               /\ nextId' = nextId + 1
               /\ calls' = IF pairAwaitsPublish THEN calls
                           ELSE Fulfil(c, ConnectionState(relayLog[i].topic))
          ELSE /\ relayLog' = Settled(i, ok)
               /\ calls' = Reject(c, "TransportFailure")
               /\ UNCHANGED <<metadata, publicKeys, nextId>>
    /\ UNCHANGED <<privateKey, decryptionKeys>>

\* the promise of pair's publish settles; pair is not waiting for it
pairPublishSettle(i, ok) ==
    /\ i \in DOMAIN relayLog
    /\ relayLog[i].status = "pending"
    /\ relayLog[i].kind = "publish"
    /\ calls[relayLog[i].call].op = "pair"
    /\ relayLog' = Settled(i, ok)
    /\ LET c == relayLog[i].call
       IN calls' = IF ~relayLog[i].awaited THEN calls
                   ELSE IF ok THEN Fulfil(c, ConnectionState(relayLog[i].topic))
                   ELSE Reject(c, "TransportFailure")
    /\ UNCHANGED <<metadata, privateKey, publicKeys, decryptionKeys, nextId>>

(***************************************************************************)
(* The session: calls of the application and settlements by the transport *)
(***************************************************************************)
InitOut ==
    /\ metadata = NoMetadata
    /\ privateKey = Undefined
    /\ publicKeys = <<>>
    /\ calls = <<>>
    /\ relayLog = <<>>
    /\ decryptionKeys = {}
    /\ nextId = 1

InitIn ==
    /\ listeners = <<>>
    /\ events = <<>>

NoCall == [called |-> FALSE, n |-> 0]

InitCodec ==
    /\ pairingString = <<>>
    /\ decoded = [status |-> "idle"]
    /\ pairingCall = NoCall

InitText ==
    /\ rawString = <<>>
    /\ sanitized = <<>>

Init == InitOut /\ InitIn /\ InitCodec /\ InitText

NextOut ==
    \/ \E md \in MetadataInputs, k \in SuppliedPrivKeys \cup {Undefined} : init(md, k)
    \/ \E i \in DOMAIN relayLog, ok \in BOOLEAN : initResume(i, ok)
    \/ \E t \in MetadataTopics, k \in ConnectKeys : connect(t, TRUE, k)
    \/ \E t \in Topics \cup {Undefined} : connect(t, FALSE, Undefined)
    \/ \E i \in DOMAIN relayLog, ok \in BOOLEAN : connectResume(i, ok)
    \/ \E t \in PairingTopics, k \in PairingKeys, a \in AccountLists, n \in Networks :
           pair(t, k, a, n)
    \/ \E i \in DOMAIN relayLog, ok \in BOOLEAN : pairResume(i, ok)
    \/ \E i \in DOMAIN relayLog, ok \in BOOLEAN : pairPublishSettle(i, ok)
    \/ \E t \in SendTopics, b \in ByteArrays : sendTransaction(t, b)
    \/ \E t \in SendTopics : requestAdditionalAccounts(t)
    \/ \E t \in SendTopics, a \in AccountLists : sendAdditionalAccounts(t, a)
    \/ \E t \in SendTopics : sendTransactionResponse(t)
    \/ \E t \in SendTopics, r \in Reasons, m \in MsgIds : reject(t, r, m)
    \/ \E t \in SendTopics, k \in AckKeys, m \in MsgIds : acknowledge(t, k, m)
    \/ \E i \in DOMAIN relayLog, ok \in BOOLEAN : publishResume(i, ok)

Next == NextOut /\ UNCHANGED <<inVars, codecVars, textVars>>

Spec == Init /\ [][Next]_vars

(***************************************************************************)
(* Claims about the session.                                               *)
(***************************************************************************)
RegistryLookup(reg, t) == IF t \in DOMAIN reg THEN reg[t] ELSE Undefined

\* C1: sendTransaction on a topic with no registered public key fails with
\* UnregisteredCounterpartyKey and hands nothing to the transport's publish.
C1_SendTransactionRequiresKey ==
    [][ (/\ Len(calls') = Len(calls) + 1
         /\ calls'[Len(calls')].op = "sendTransaction"
         /\ calls'[Len(calls')].topic \notin DOMAIN publicKeys)
        => /\ calls'[Len(calls')].status = "rejected"
           /\ calls'[Len(calls')].value = "UnregisteredCounterpartyKey"
           /\ relayLog' = relayLog ]_vars

\* C2: every publish issued by a send function, reject or pair on a topic carries
\* the key the registry holds for that topic at the moment of the publish.
C2_PublishUsesRegisteredKey ==
    [][ Len(relayLog') > Len(relayLog)
        => LET r == relayLog'[Len(relayLog')]
           IN (r.kind = "publish" /\ calls'[r.call].op # "acknowledge")
              => r.key = RegistryLookup(publicKeys', r.topic) ]_vars

\* C2 witness: two publishes on one topic carry different keys, one of them a
\* registered key: the registry entry changed between them.
C2_Witness ==
    \E i, j \in DOMAIN relayLog :
        /\ relayLog[i].kind = "publish" /\ relayLog[j].kind = "publish"
        /\ relayLog[i].topic = relayLog[j].topic
        /\ relayLog[i].key \in Keys
        /\ relayLog[j].key # relayLog[i].key
        /\ calls[relayLog[i].call].op # "acknowledge"
        /\ calls[relayLog[j].call].op # "acknowledge"

PublishesOf(log, c) ==
    {i \in DOMAIN log : log[i].call = c /\ log[i].kind = "publish"}

\* C3: when pair completes, the registry maps pairingData.topic to
\* pairingData.metadata.publicKey, exactly one ApprovePairing envelope has been
\* handed to publish on that topic, and the returned ConnectionState has that topic.
C3_PairCompletes ==
    [][ \A c \in DOMAIN calls :
          (calls[c].op = "pair" /\ calls[c].status = "pending"
             /\ calls'[c].status = "fulfilled")
          => /\ calls[c].topic \in DOMAIN publicKeys'
             /\ publicKeys'[calls[c].topic] = calls[c].key
             /\ calls'[c].value.topic = calls[c].topic
             /\ Cardinality(PublishesOf(relayLog', c)) = 1
             /\ \A i \in PublishesOf(relayLog', c) :
                    /\ relayLog'[i].env.type = "ApprovePairing"
                    /\ relayLog'[i].topic = calls[c].topic ]_vars

\* C3 witness: a pair call has completed on a topic that held another key before.
C3_Witness ==
    \E c, d \in DOMAIN calls :
        /\ c < d
        /\ calls[c].op = "pair" /\ calls[c].status = "fulfilled"
        /\ calls[d].op = "pair" /\ calls[d].status = "fulfilled"
        /\ calls[c].topic = calls[d].topic
        /\ calls[c].key # calls[d].key

\* the call a step is made for: the one added or the one whose promise settles
StepCalls == {c \in DOMAIN calls' : c \notin DOMAIN calls \/ calls'[c].status # calls[c].status}

\* C4: registering a public key for one topic (connect with metadata, or pair)
\* leaves the lookup of every other topic unchanged.
C4_RegistryIsolation ==
    [][ publicKeys' # publicKeys
        => \E c \in StepCalls :
             /\ calls'[c].op \in {"connect", "pair"}
             /\ \A t2 \in Topics \ {calls'[c].topic} :
                    /\ (t2 \in DOMAIN publicKeys') = (t2 \in DOMAIN publicKeys)
                    /\ RegistryLookup(publicKeys', t2) = RegistryLookup(publicKeys, t2) ]_vars

\* C4 witness: keys are registered for two topics, one by connect and one by pair.
C4_Witness ==
    /\ DOMAIN publicKeys = Topics
    /\ publicKeys["t1"] = "k1"
    /\ publicKeys["t2"] = "k2"

\* C8: whenever the transport rejects a subscribe or a publish, the operation
\* that triggered it fails.
C8_TransportFailurePropagates ==
    \A i \in DOMAIN relayLog :
        relayLog[i].status = "rejected" => calls[relayLog[i].call].status = "rejected"

\* C9: once the subscribe inside pair has succeeded, pair has returned the
\* ConnectionState, whatever the state of its ApprovePairing publish.
C9_PairDoesNotAwaitPublish ==
    \A i \in DOMAIN relayLog :
        (relayLog[i].kind = "subscribe" /\ relayLog[i].status = "resolved"
           /\ calls[relayLog[i].call].op = "pair")
        => /\ calls[relayLog[i].call].status = "fulfilled"
           /\ calls[relayLog[i].call].value = ConnectionState(relayLog[i].topic)

\* C9 witness: pair has returned and its publish was rejected afterwards.
C9_Witness ==
    \E i \in DOMAIN relayLog :
        /\ relayLog[i].kind = "publish"
        /\ relayLog[i].status = "rejected"
        /\ calls[relayLog[i].call].op = "pair"
        /\ calls[relayLog[i].call].status = "fulfilled"

\* the requests of kind k that call c handed to the relay
RequestsOf(log, c, k) == {i \in DOMAIN log : log[i].call = c /\ log[i].kind = k}

\* the request a step hands to the relay, as the last entry of the log
LastRequest == relayLog'[Len(relayLog')]

\* the safe class: word characters, '.' and space
SafeClass == (48..57) \cup (65..90) \cup (97..122) \cup {95, 46, 32}

\* the number a sequence of decimal digits stands for, or -1
DecimalValue(d) ==
    LET val[k \in 0..Len(d)] == IF k = 0 THEN 0 ELSE val[k - 1] * 10 + (d[k] - 48)
    IN IF d # <<>> /\ (\A k \in DOMAIN d : d[k] >= 48 /\ d[k] <= 57)
          /\ (Len(d) > 1 => d[1] # 48)
       THEN val[Len(d)] ELSE -1

\* out is text with every character outside the safe class replaced by its
\* numeric character reference and every other character kept
IsEscapeOf(out, text) ==
    LET width(c) == IF c \in SafeClass THEN 1
                    ELSE IF c < 10 THEN 4 ELSE IF c < 100 THEN 5
                    ELSE IF c < 1000 THEN 6 ELSE IF c < 10000 THEN 7 ELSE 8
        start[i \in 1..(Len(text) + 1)] ==
            IF i = 1 THEN 1 ELSE start[i - 1] + width(text[i - 1])
    IN /\ Len(out) = start[Len(text) + 1] - 1
       /\ \A i \in DOMAIN text :
              IF text[i] \in SafeClass
              THEN out[start[i]] = text[i]
              ELSE /\ out[start[i]] = 38
                   /\ out[start[i] + 1] = 35
                   /\ out[start[i + 1] - 1] = 59
                   /\ DecimalValue(SubSeq(out, start[i] + 2, start[i + 1] - 2)) = text[i]

\* C15: reject(topic, reason, msg_id) publishes on topic exactly one envelope of
\* the rejection type whose reason is the sanitized reason ("A&B.C" gives
\* "A&#38;B.C") and whose msg_id is the msg_id given.
C15_RejectPublishesSanitizedReason ==
    [][ /\ \A t \in SendTopics, r \in Reasons, m \in MsgIds :
              reject(t, r, m)
              => /\ Len(relayLog') = Len(relayLog) + 1
                 /\ LastRequest.kind = "publish"
                 /\ LastRequest.topic = t
                 /\ LastRequest.call = Len(calls')
                 /\ LastRequest.env.type = "RejectPairing"
                 /\ LastRequest.env.data.msg_id = m
                 /\ LastRequest.env.data.topic = t
                 /\ IsEscapeOf(LastRequest.env.data.reason, r)
                 /\ (r = <<65, 38, 66, 46, 67>>
                       => LastRequest.env.data.reason = <<65, 38, 35, 51, 56, 59, 66, 46, 67>>)
        /\ \A c \in DOMAIN calls' :
              calls'[c].op = "reject" => Cardinality(RequestsOf(relayLog', c, "publish")) = 1
      ]_vars

\* C15 witness: a reject has completed and the reason of its envelope is "A&#38;B.C".
C15_Witness ==
    \E i \in DOMAIN relayLog :
        /\ relayLog[i].kind = "publish"
        /\ relayLog[i].status = "resolved"
        /\ calls[relayLog[i].call].op = "reject"
        /\ calls[relayLog[i].call].status = "fulfilled"
        /\ relayLog[i].env.data.reason = <<65, 38, 35, 51, 56, 59, 66, 46, 67>>
        /\ relayLog[i].env.data.msg_id = "msg-42"

\* C16: acknowledge(topic, pubKey, msg_id) publishes an Acknowledge envelope with
\* result true and the msg_id given, addressed to the pubKey given whatever the
\* registry holds for the topic, and leaves the registry unchanged.
C16_AcknowledgeUsesSuppliedKey ==
    [][ \A t \in SendTopics, k \in AckKeys, m \in MsgIds :
            acknowledge(t, k, m)
            => /\ Len(relayLog') = Len(relayLog) + 1
               /\ LastRequest.kind = "publish"
               /\ LastRequest.topic = t
               /\ LastRequest.key = k
               /\ LastRequest.env.type = "Acknowledge"
               /\ LastRequest.env.data.result = TRUE
               /\ LastRequest.env.data.msg_id = m
               /\ publicKeys' = publicKeys ]_vars

\* C16 witness: acknowledgements were published on a topic with a key other than
\* the one the registry holds for the topic.
C16_Witness ==
    \E i \in DOMAIN relayLog :
        /\ relayLog[i].kind = "publish"
        /\ calls[relayLog[i].call].op = "acknowledge"
        /\ relayLog[i].topic \in DOMAIN publicKeys
        /\ publicKeys[relayLog[i].topic] \in Keys
        /\ publicKeys[relayLog[i].topic] # relayLog[i].key

\* C17 as stated: each of the four send functions, reject and acknowledge returns,
\* when its publish succeeds, the message id of the envelope it published.
C17_EveryOperationReturnsMessageId ==
    \A c \in DOMAIN calls :
        (calls[c].op \in SendOps /\ calls[c].status = "fulfilled")
        => \E i \in RequestsOf(relayLog, c, "publish") : calls[c].value = relayLog[i].env.id

\* C17 amended: sendTransaction, requestAdditionalAccounts, sendAdditionalAccounts
\* and sendTransactionResponse return, when their publish succeeds, the message id
\* of the envelope they published; reject and acknowledge return no value.
C17_SendFunctionsReturnMessageId ==
    \A c \in DOMAIN calls :
        (calls[c].op \in SendOps /\ calls[c].status = "fulfilled")
        => IF calls[c].op \in {"reject", "acknowledge"}
           THEN calls[c].value = Undefined
           ELSE /\ Cardinality(RequestsOf(relayLog, c, "publish")) = 1
                /\ \A i \in RequestsOf(relayLog, c, "publish") :
                       /\ relayLog[i].status = "resolved"
                       /\ calls[c].value = relayLog[i].env.id

\* C17 witness: a send function and a reject or acknowledge have both completed.
C17_Witness ==
    /\ \E c \in DOMAIN calls :
           /\ calls[c].op \in {"sendTransaction", "requestAdditionalAccounts",
                               "sendAdditionalAccounts", "sendTransactionResponse"}
           /\ calls[c].status = "fulfilled"
    /\ \E c \in DOMAIN calls :
           calls[c].op \in {"reject", "acknowledge"} /\ calls[c].status = "fulfilled"

\* C18: connect uses the topic given or a new one, subscribes to exactly that topic
\* and then returns ConnectionState{topic, expires: 0}; with counterparty metadata
\* the registry maps the topic to its publicKey when subscribe is called, without
\* it the registry is unchanged.
C18_ConnectRegistersThenSubscribes ==
    [][ /\ \A t \in Topics, k \in Keys :
              connect(t, TRUE, k)
              => /\ calls'[Len(calls')].topic = t
                 /\ LastRequest.kind = "subscribe" /\ LastRequest.topic = t
                 /\ LastRequest.call = Len(calls')
                 /\ t \in DOMAIN publicKeys' /\ publicKeys'[t] = k
        /\ \A t \in Topics \cup {Undefined} :
              connect(t, FALSE, Undefined)
              => /\ calls'[Len(calls')].topic \in Topics
                 /\ (t # Undefined => calls'[Len(calls')].topic = t)
                 /\ LastRequest.kind = "subscribe"
                 /\ LastRequest.topic = calls'[Len(calls')].topic
                 /\ LastRequest.call = Len(calls')
                 /\ publicKeys' = publicKeys
        /\ \A c \in DOMAIN calls :
              (calls[c].op = "connect" /\ calls[c].status = "pending"
                 /\ calls'[c].status = "fulfilled")
              => /\ calls'[c].value = [topic |-> calls[c].topic, expires |-> 0]
                 /\ Cardinality(RequestsOf(relayLog', c, "subscribe")) = 1
                 /\ \A i \in RequestsOf(relayLog', c, "subscribe") :
                        /\ relayLog'[i].topic = calls[c].topic
                        /\ relayLog'[i].status = "resolved"
                 /\ publicKeys' = publicKeys
      ]_vars

\* C18 witness: a connect with counterparty metadata has returned, and so has a
\* connect without a topic.
C18_Witness ==
    /\ \E c \in DOMAIN calls :
           /\ calls[c].op = "connect" /\ calls[c].status = "fulfilled"
           /\ calls[c].key = "k1"
           /\ calls[c].topic \in DOMAIN publicKeys
           /\ publicKeys[calls[c].topic] = "k1"
    /\ \E c \in DOMAIN calls :
           /\ calls[c].op = "connect" /\ calls[c].status = "fulfilled"
           /\ calls[c].key = Undefined

\* C19: in pair the subscribe completes before the counterparty key is registered
\* and before the ApprovePairing envelope is handed to publish; if the subscribe
\* fails, pair fails, no entry is added to the registry, nothing is published and
\* the local metadata is left as it was.
C19_PairSubscribesFirst ==
    [][ \A c \in DOMAIN calls' :
          calls'[c].op = "pair"
          => /\ (c \notin DOMAIN calls
                   => /\ publicKeys' = publicKeys
                      /\ metadata' = metadata
                      /\ RequestsOf(relayLog', c, "publish") = {}
                      /\ Cardinality(RequestsOf(relayLog', c, "subscribe")) = 1)
             /\ (RequestsOf(relayLog', c, "publish") # {}
                   => \E i \in RequestsOf(relayLog', c, "subscribe") :
                          relayLog'[i].status = "resolved")
             /\ ((c \in StepCalls /\ (publicKeys' # publicKeys \/ metadata' # metadata))
                   => \E i \in RequestsOf(relayLog, c, "subscribe") :
                          relayLog[i].status = "pending" /\ relayLog'[i].status = "resolved")
             /\ \A i \in RequestsOf(relayLog', c, "subscribe") :
                    relayLog'[i].status = "rejected"
                    => /\ calls'[c].status = "rejected"
                       /\ RequestsOf(relayLog', c, "publish") = {}
                       /\ (relayLog[i].status = "pending"
                             => publicKeys' = publicKeys /\ metadata' = metadata)
      ]_vars

\* C19 witness: a pair has failed on its subscribe; its topic has no registry entry
\* and the metadata is unsanitized.
C19_Witness ==
    \E c \in DOMAIN calls :
        /\ calls[c].op = "pair" /\ calls[c].status = "rejected"
        /\ calls[c].key = "k2"
        /\ calls[c].topic \notin DOMAIN publicKeys
        /\ metadata.defined
        /\ metadata.name = <<65, 38, 66>>

\* C20: registry entries are never removed, are added only by connect with
\* counterparty metadata or by pair, and never map a topic to an absent key: a
\* topic that once had a key still has one.
C20_RegistryHoldsRealKeys ==
    [][ /\ \A t \in DOMAIN publicKeys : t \in DOMAIN publicKeys'
        /\ \A t \in DOMAIN publicKeys' : publicKeys'[t] # Undefined
        /\ (publicKeys' # publicKeys
              => \E c \in StepCalls : calls'[c].op \in {"connect", "pair"})
      ]_vars

(***************************************************************************)
(* Inbound path: the listener setupEvents registers on relay.payload.      *)
(***************************************************************************)
\* the message-type tags the send functions, pair, reject and acknowledge use
RelayMessageType ==
    {"Transaction", "TransactionResponse", "ApprovePairing", "RejectPairing",
     "Acknowledge", "AdditionalAccountRequest", "AdditionalAccountResponse"}

\* the event channels of a HashConnect instance
EventChannels ==
    {"foundExtensionEvent", "pairingEvent", "transactionEvent",
     "transactionResponseEvent", "acknowledgeMessageEvent",
     "additionalAccountRequestEvent", "additionalAccountResponseEvent"}

\* what the relay may hand to the listener: nothing (a falsy payload), bytes that
\* do not decode, or the encoding of a message of some type
Payloads ==
    {[kind |-> "empty", type |-> "none"], [kind |-> "garbage", type |-> "none"]}
    \cup {[kind |-> "message", type |-> t] : t \in RelayMessageType}

\* messages.decode(payload, hc): the RelayMessage, or an exception
decode(payload) ==
    [ok |-> payload.kind = "message", message |-> [type |-> payload.type]]

\* the channel that corresponds to a message type; there is none for RejectPairing
Route(type) ==
    CASE type = "ApprovePairing" -> "pairingEvent"
      [] type = "Transaction" -> "transactionEvent"
      [] type = "TransactionResponse" -> "transactionResponseEvent"
      [] type = "Acknowledge" -> "acknowledgeMessageEvent"
      [] type = "AdditionalAccountRequest" -> "additionalAccountRequestEvent"
      [] type = "AdditionalAccountResponse" -> "additionalAccountResponseEvent"
      [] OTHER -> "none"

\* messageParser.onPayload(message, hc), up to its first suspension: the events
\* it emits for the message of delivery d
onPayload(message, d) ==
    IF Route(message.type) \in EventChannels
    THEN <<[channel |-> Route(message.type), type |-> message.type, delivery |-> d]>>
    ELSE <<>>

\* the listener's promise after its synchronous part
ListenerStatus(payload) ==
    IF payload.kind = "empty" THEN "returned"
    ELSE IF ~decode(payload).ok THEN "threw"
    ELSE "awaiting"

\* variants of the listener: one registered twice, one that is dead once a decode
\* has thrown, one that emits ahead of the events already emitted
payloadListenerTwice(payload) ==
    /\ Len(listeners) < MaxPayloads
    /\ listeners' = Append(listeners, [payload |-> payload, status |-> ListenerStatus(payload)])
    /\ events' = IF ListenerStatus(payload) = "awaiting"
                 THEN events \o onPayload(decode(payload).message, Len(listeners) + 1)
                             \o onPayload(decode(payload).message, Len(listeners) + 1)
                 ELSE events

payloadListenerDead(payload) ==
    /\ Len(listeners) < MaxPayloads
    /\ IF \E i \in DOMAIN listeners : listeners[i].status = "threw"
       THEN /\ listeners' = Append(listeners, [payload |-> payload, status |-> "dead"])
            /\ events' = events
       ELSE /\ listeners' = Append(listeners,
                   [payload |-> payload, status |-> ListenerStatus(payload)])
            /\ events' = IF ListenerStatus(payload) = "awaiting"
                         THEN events \o onPayload(decode(payload).message, Len(listeners) + 1)
                         ELSE events

payloadListenerAhead(payload) ==
    /\ Len(listeners) < MaxPayloads
    /\ listeners' = Append(listeners, [payload |-> payload, status |-> ListenerStatus(payload)])
    /\ events' = IF ListenerStatus(payload) = "awaiting"
                 THEN onPayload(decode(payload).message, Len(listeners) + 1) \o events
                 ELSE events

\* lines 105-110: the relay emits a payload and the listener runs up to its await
payloadListener(payload) ==
    /\ Len(listeners) < MaxPayloads
    /\ listeners' = Append(listeners, [payload |-> payload, status |-> ListenerStatus(payload)])
    /\ events' = IF ListenerStatus(payload) = "awaiting"
                 THEN events \o onPayload(decode(payload).message, Len(listeners) + 1)
                 ELSE events

\* line 110: the promise of onPayload settles and the listener ends
payloadListenerResume(i, ok) ==
    /\ i \in DOMAIN listeners
    /\ listeners[i].status = "awaiting"
    /\ listeners' = [listeners EXCEPT ![i].status = IF ok THEN "completed" ELSE "failed"]
    /\ UNCHANGED events

NextIn ==
    \/ \E p \in Payloads : payloadListener(p)
    \/ \E i \in DOMAIN listeners, ok \in BOOLEAN : payloadListenerResume(i, ok)

SpecInbound == Init /\ [][NextIn /\ UNCHANGED <<outVars, codecVars, textVars>>]_vars

(***************************************************************************)
(* Claims about the inbound path.                                          *)
(***************************************************************************)
Decoded(i) == listeners[i].payload.kind = "message"
EventsOf(i) == {e \in DOMAIN events : events[e].delivery = i}

\* C5 as stated: every payload that decodes to a RelayMessage is routed to exactly
\* one event channel, the one of its message type.
C5_EveryMessageRouted ==
    \A i \in DOMAIN listeners :
        Decoded(i) => /\ Cardinality(EventsOf(i)) = 1
                      /\ \A e \in EventsOf(i) : events[e].type = listeners[i].payload.type

ChannelOf ==
    [t \in RelayMessageType \ {"RejectPairing"} |->
        CASE t = "ApprovePairing" -> "pairingEvent"
          [] t = "Transaction" -> "transactionEvent"
          [] t = "TransactionResponse" -> "transactionResponseEvent"
          [] t = "Acknowledge" -> "acknowledgeMessageEvent"
          [] t = "AdditionalAccountRequest" -> "additionalAccountRequestEvent"
          [] t = "AdditionalAccountResponse" -> "additionalAccountResponseEvent"]

\* C5 amended: a decoded payload of a type other than RejectPairing is routed to
\* exactly one event channel, the one of its type (Acknowledge to the acknowledge
\* channel only); a RejectPairing message is routed to no channel.
C5_MessageRoutedToItsChannel ==
    \A i \in DOMAIN listeners :
        Decoded(i) =>
            IF listeners[i].payload.type = "RejectPairing"
            THEN EventsOf(i) = {}
            ELSE /\ Cardinality(EventsOf(i)) = 1
                 /\ \A e \in EventsOf(i) :
                        /\ events[e].channel = ChannelOf[listeners[i].payload.type]
                        /\ events[e].type = listeners[i].payload.type

\* C5 witness: an Acknowledge and a RejectPairing message have both been delivered.
C5_Witness ==
    /\ \E i \in DOMAIN listeners : Decoded(i) /\ listeners[i].payload.type = "Acknowledge"
    /\ \E i \in DOMAIN listeners : Decoded(i) /\ listeners[i].payload.type = "RejectPairing"
    /\ \E e \in DOMAIN events : events[e].channel = "acknowledgeMessageEvent"

\* C6: a payload that fails to decode is dropped, and every decodable payload that
\* arrives after it is still decoded and dispatched to its channel.
C6_BadPayloadDoesNotBlock ==
    \A i, j \in DOMAIN listeners :
        (i < j /\ listeners[i].payload.kind = "garbage")
        => /\ EventsOf(i) = {}
           /\ (Decoded(j) => listeners[j].status \in {"awaiting", "completed", "failed"})
           /\ (Decoded(j) /\ listeners[j].payload.type # "RejectPairing"
                 => \E e \in EventsOf(j) :
                        events[e].channel = ChannelOf[listeners[j].payload.type])

\* C6 witness: a message was dispatched after a payload that did not decode.
C6_Witness ==
    \E i, j \in DOMAIN listeners :
        /\ i < j
        /\ listeners[i].status = "threw"
        /\ Decoded(j)
        /\ EventsOf(j) # {}

\* C7 as stated: the handling of a payload, its awaited onPayload included, has
\* run to completion before the handling of the next payload is started.
C7_HandlingNeverInterleaves ==
    \A i, j \in DOMAIN listeners :
        i < j => listeners[i].status # "awaiting"

\* C7 amended: payloads are decoded and handed to onPayload in delivery order, so
\* their events are emitted in delivery order; only the awaited onPayload of an
\* earlier payload may still be pending when a later payload is handled.
C7_DispatchInDeliveryOrder ==
    /\ \A a, b \in DOMAIN events : a < b => events[a].delivery < events[b].delivery
    /\ \A i \in DOMAIN listeners :
           (Decoded(i) /\ listeners[i].payload.type # "RejectPairing") => EventsOf(i) # {}

\* C7 witness: the second payload has been dispatched while the onPayload of the
\* first is still awaited.
C7_Witness ==
    \E i, j \in DOMAIN listeners :
        /\ i < j
        /\ listeners[i].status = "awaiting"
        /\ EventsOf(i) # {}
        /\ EventsOf(j) # {}

(***************************************************************************)
(* Pairing codec: decodePairingString (lines 231-237).                     *)
(***************************************************************************)
\* the value of a character in the base64 alphabet ('-' and '_' are accepted as
\* '+' and '/'), or -1
B64Val(c) ==
    IF c >= 65 /\ c <= 90 THEN c - 65
    ELSE IF c >= 97 /\ c <= 122 THEN c - 97 + 26
    ELSE IF c >= 48 /\ c <= 57 THEN c - 48 + 52
    ELSE IF c = 43 \/ c = 45 THEN 62
    ELSE IF c = 47 \/ c = 95 THEN 63
    ELSE -1

\* the sextets Buffer.from(str, 'base64') reads: decoding stops at the first '=',
\* any other character outside the alphabet is skipped
B64Sextets(str) ==
    LET pads == {i \in DOMAIN str : str[i] = 61}
        end == IF pads = {} THEN Len(str)
               ELSE (CHOOSE i \in pads : \A j \in pads : i <= j) - 1
        kept == SelectSeq(SubSeq(str, 1, end), LAMBDA c : B64Val(c) >= 0)
    IN [i \in 1..Len(kept) |-> B64Val(kept[i])]

\* four sextets give three bytes; two or three left over give one or two bytes
B64Bytes(x) ==
    LET rest == Len(x) % 4
        n == (Len(x) \div 4) * 3 + (IF rest = 2 THEN 1 ELSE IF rest = 3 THEN 2 ELSE 0)
    IN [k \in 1..n |->
          LET g == ((k - 1) \div 3) * 4
          IN CASE (k - 1) % 3 = 0 -> x[g + 1] * 4 + (x[g + 2] \div 16)
               [] (k - 1) % 3 = 1 -> (x[g + 2] % 16) * 16 + (x[g + 3] \div 4)
               [] OTHER -> (x[g + 3] % 4) * 64 + x[g + 4]]

\* Buffer.from(str, 'base64'): never fails
Base64Decode(str) == B64Bytes(B64Sextets(str))

IsCont(b, i) == i <= Len(b) /\ b[i] >= 128 /\ b[i] <= 191

\* the number of continuation bytes the lead byte c asks for (0: not a lead byte)
Utf8Needed(c) ==
    IF c >= 194 /\ c <= 223 THEN 1
    ELSE IF c >= 224 /\ c <= 239 THEN 2
    ELSE IF c >= 240 /\ c <= 244 THEN 3
    ELSE 0

\* byte i + k may follow the lead byte at i: a continuation byte, the first one in
\* the narrower range that excludes overlong forms, surrogates and code points
\* above U+10FFFF
Utf8Follows(b, i, k) ==
    /\ IsCont(b, i + k)
    /\ (k = 1 /\ b[i] = 224 => b[i + 1] >= 160)
    /\ (k = 1 /\ b[i] = 237 => b[i + 1] <= 159)
    /\ (k = 1 /\ b[i] = 240 => b[i + 1] >= 144)
    /\ (k = 1 /\ b[i] = 244 => b[i + 1] <= 143)

\* the UTF-16 code units of the UTF-8 sequence that starts at byte i, and the
\* number of bytes it takes; an ill-formed sequence gives one U+FFFD for its
\* longest prefix that could start a well-formed one
Utf8Step(b, i) ==
    LET need == Utf8Needed(b[i])
        good == {k \in 0..need : \A j \in 1..k : Utf8Follows(b, i, j)}
        have == CHOOSE k \in good : \A j \in good : j <= k
    IN IF b[i] < 128 THEN [units |-> <<b[i]>>, n |-> 1]
       ELSE IF have < need \/ need = 0 THEN [units |-> <<65533>>, n |-> have + 1]
       ELSE IF need = 1
            THEN [units |-> <<(b[i] - 192) * 64 + (b[i + 1] - 128)>>, n |-> 2]
       ELSE IF need = 2
            THEN [units |-> <<(b[i] - 224) * 4096 + (b[i + 1] - 128) * 64
                              + (b[i + 2] - 128)>>,
                  n |-> 3]
       ELSE LET cp == (b[i] - 240) * 262144 + (b[i + 1] - 128) * 4096
                      + (b[i + 2] - 128) * 64 + (b[i + 3] - 128) - 65536
            IN [units |-> <<55296 + (cp \div 1024), 56320 + (cp % 1024)>>, n |-> 4]

\* byte i belongs to the well-formed sequence of a lead byte before it
Utf8Covered(b, i) ==
    \E k \in 1..3 : i - k >= 1 /\ b[i - k] >= 192 /\ Utf8Step(b, i - k).n > k

\* buffer.toString(): UTF-8 to UTF-16 code units
Utf8Decode(b) ==
    Flatten([i \in 1..Len(b) |->
                IF Utf8Covered(b, i) THEN <<>> ELSE Utf8Step(b, i).units])

(***************************************************************************)
(* JSON.parse.  A value is [t |-> tag, v |-> content]: "null", "bool"      *)
(* (a Boolean), "num" (its text), "str" (its characters), "arr" (its       *)
(* elements), "obj" (its members [k |-> key, v |-> value] in source order).*)
(***************************************************************************)
At(s, i) == IF i >= 1 /\ i <= Len(s) THEN s[i] ELSE -1
IsWs(c) == c \in {32, 9, 10, 13}
IsDigit(c) == c >= 48 /\ c <= 57

IsPlainChar(c) == c >= 32 /\ c # 34 /\ c # 92

\* the character classes the scanner skips over
InClass(c, class) ==
    CASE class = "ws" -> IsWs(c)
      [] class = "digit" -> IsDigit(c)
      [] class = "plain" -> IsPlainChar(c)

\* the first position from i on (Len(s) + 1 at most) whose character is not in
\* the class
SkipWhile(s, i, class) ==
    LET stops == {j \in i..Len(s) : ~InClass(s[j], class)}
    IN IF i > Len(s) THEN i
       ELSE IF stops = {} THEN Len(s) + 1
       ELSE CHOOSE j \in stops : \A k \in stops : j <= k

SkipWs(s, i) == IF i < 1 THEN i ELSE SkipWhile(s, i, "ws")
SkipDigits(s, i) == IF i < 1 THEN i ELSE SkipWhile(s, i, "digit")

ParseFail == [ok |-> FALSE, v |-> [t |-> "none", v |-> <<>>], i |-> 0]
ParseOk(v, i) == [ok |-> TRUE, v |-> v, i |-> i]

HexVal(c) ==
    IF IsDigit(c) THEN c - 48
    ELSE IF c >= 65 /\ c <= 70 THEN c - 55
    ELSE IF c >= 97 /\ c <= 102 THEN c - 87
    ELSE -1

\* the character a two-character escape stands for, or -1
EscapeVal(c) ==
    CASE c = 34 -> 34 [] c = 92 -> 92 [] c = 47 -> 47 [] c = 98 -> 8
      [] c = 102 -> 12 [] c = 110 -> 10 [] c = 114 -> 13 [] c = 116 -> 9
      [] OTHER -> -1

\* a string, from position i after its opening quote: the characters up to the next
\* quote, backslash or control character are taken as they are
RECURSIVE ParseString(_, _, _)
ParseString(s, i, acc) ==
    LET p == SkipWhile(s, i, "plain")
        c == At(s, p)
        got == acc \o SubSeq(s, i, p - 1)
    IN IF c = 34 THEN ParseOk([t |-> "str", v |-> got], p + 1)
       ELSE IF c # 92 THEN ParseFail
       ELSE IF EscapeVal(At(s, p + 1)) >= 0
            THEN ParseString(s, p + 2, Append(got, EscapeVal(At(s, p + 1))))
       ELSE IF /\ At(s, p + 1) = 117
               /\ \A k \in 2..5 : HexVal(At(s, p + k)) >= 0
            THEN ParseString(s, p + 6,
                     Append(got, HexVal(At(s, p + 2)) * 4096 + HexVal(At(s, p + 3)) * 256
                                 + HexVal(At(s, p + 4)) * 16 + HexVal(At(s, p + 5))))
       ELSE ParseFail

\* a number: -? (0 | [1-9][0-9]*) (. [0-9]+)? ([eE] [+-]? [0-9]+)?
ParseNumber(s, i) ==
    LET a == IF At(s, i) = 45 THEN i + 1 ELSE i
        b == IF At(s, a) = 48 THEN a + 1 ELSE SkipDigits(s, a)
        c == IF At(s, b) = 46 THEN SkipDigits(s, b + 1) ELSE b
        x == IF At(s, c + 1) \in {43, 45} THEN c + 2 ELSE c + 1
        d == IF At(s, c) \in {69, 101} THEN SkipDigits(s, x) ELSE c
    IN IF b = a \/ (At(s, b) = 46 /\ c = b + 1) \/ (At(s, c) \in {69, 101} /\ d = x)
       THEN ParseFail
       ELSE ParseOk([t |-> "num", v |-> SubSeq(s, i, d - 1)], d)

ParseLiteral(s, i, word, value) ==
    IF i + Len(word) - 1 <= Len(s) /\ SubSeq(s, i, i + Len(word) - 1) = word
    THEN ParseOk(value, i + Len(word))
    ELSE ParseFail

RECURSIVE ParseValue(_, _)
RECURSIVE ParseElements(_, _, _)
RECURSIVE ParseMembers(_, _, _)

\* the elements of an array, from the first character of an element
ParseElements(s, i, acc) ==
    LET e == ParseValue(s, i)
        j == SkipWs(s, e.i)
    IN IF ~e.ok THEN ParseFail
       ELSE IF At(s, j) = 44 THEN ParseElements(s, j + 1, Append(acc, e.v))
       ELSE IF At(s, j) = 93 THEN ParseOk([t |-> "arr", v |-> Append(acc, e.v)], j + 1)
       ELSE ParseFail

\* the members of an object, from the position where a key is expected
ParseMembers(s, i, acc) ==
    LET a == SkipWs(s, i)
        k == IF At(s, a) = 34 THEN ParseString(s, a + 1, <<>>) ELSE ParseFail
        c == SkipWs(s, k.i)
        e == IF k.ok /\ At(s, c) = 58 THEN ParseValue(s, c + 1) ELSE ParseFail
        j == SkipWs(s, e.i)
        members == Append(acc, [k |-> k.v.v, v |-> e.v])
    IN IF ~e.ok THEN ParseFail
       ELSE IF At(s, j) = 44 THEN ParseMembers(s, j + 1, members)
       ELSE IF At(s, j) = 125 THEN ParseOk([t |-> "obj", v |-> members], j + 1)
       ELSE ParseFail

ParseValue(s, i) ==
    LET a == SkipWs(s, i)
        c == At(s, a)
    IN IF c = 123 THEN
           IF At(s, SkipWs(s, a + 1)) = 125
           THEN ParseOk([t |-> "obj", v |-> <<>>], SkipWs(s, a + 1) + 1)
           ELSE ParseMembers(s, a + 1, <<>>)
       ELSE IF c = 91 THEN
           IF At(s, SkipWs(s, a + 1)) = 93
           THEN ParseOk([t |-> "arr", v |-> <<>>], SkipWs(s, a + 1) + 1)
           ELSE ParseElements(s, a + 1, <<>>)
       ELSE IF c = 34 THEN ParseString(s, a + 1, <<>>)
       ELSE IF c = 116 THEN ParseLiteral(s, a, <<116, 114, 117, 101>>, [t |-> "bool", v |-> TRUE])
       ELSE IF c = 102 THEN ParseLiteral(s, a, <<102, 97, 108, 115, 101>>, [t |-> "bool", v |-> FALSE])
       ELSE IF c = 110 THEN ParseLiteral(s, a, <<110, 117, 108, 108>>, [t |-> "null", v |-> <<>>])
       ELSE IF c = 45 \/ IsDigit(c) THEN ParseNumber(s, a)
       ELSE ParseFail

\* JSON.parse(text): the value, or a SyntaxError
JSONParse(text) ==
    LET r == ParseValue(text, 1)
    IN IF r.ok /\ SkipWs(text, r.i) = Len(text) + 1 THEN r ELSE ParseFail

\* decodePairingString(pairingString): what the call returns or throws
decodePairingStringResult(str) ==
    LET json_string == Utf8Decode(Base64Decode(str))
        data == JSONParse(json_string)
    IN IF data.ok THEN [status |-> "returned", error |-> "none", value |-> data.v]
       ELSE [status |-> "threw", error |-> "SyntaxError", value |-> ParseFail.v]

\* one call of decodePairingString, on the token drawn initially
decodePairingString ==
    /\ decoded.status = "idle"
    /\ decoded' = decodePairingStringResult(pairingString)
    /\ UNCHANGED <<pairingString, pairingCall>>

(***************************************************************************)
(* The tokens decodePairingString is given.                                *)
(***************************************************************************)
\* {"metadata":{"name":"A","description":"d","icon":"i","url":"u","publicKey":"k1"},
\*  "topic":"t1","network":"testnet","multiAccount":false}
PairingJson ==
    <<123, 34, 109, 101, 116, 97, 100, 97, 116, 97, 34, 58, 123, 34, 110, 97, 109, 101,
      34, 58, 34, 65, 34, 44, 34, 100, 101, 115, 99, 114, 105, 112, 116, 105, 111, 110,
      34, 58, 34, 100, 34, 44, 34, 105, 99, 111, 110, 34, 58, 34, 105, 34, 44, 34, 117,
      114, 108, 34, 58, 34, 117, 34, 44, 34, 112, 117, 98, 108, 105, 99, 75, 101, 121,
      34, 58, 34, 107, 49, 34, 125, 44, 34, 116, 111, 112, 105, 99, 34, 58, 34, 116, 49,
      34, 44, 34, 110, 101, 116, 119, 111, 114, 107, 34, 58, 34, 116, 101, 115, 116,
      110, 101, 116, 34, 44, 34, 109, 117, 108, 116, 105, 65, 99, 99, 111, 117, 110,
      116, 34, 58, 102, 97, 108, 115, 101, 125>>

\* {}   null   42   "x"   [1,2]   {"topic":"t1"}   hello   {"topic":
\* {"metadata":1,"topic":2,"network":3,"multiAccount":4}
OtherTexts ==
    { <<123, 125>>,
      <<110, 117, 108, 108>>,
      <<52, 50>>,
      <<34, 120, 34>>,
      <<91, 49, 44, 50, 93>>,
      <<123, 34, 116, 111, 112, 105, 99, 34, 58, 34, 116, 49, 34, 125>>,
      <<104, 101, 108, 108, 111>>,
      <<123, 34, 116, 111, 112, 105, 99, 34, 58>>,
      <<123, 34, 109, 101, 116, 97, 100, 97, 116, 97, 34, 58, 49, 44, 34, 116, 111, 112,
        105, 99, 34, 58, 50, 44, 34, 110, 101, 116, 119, 111, 114, 107, 34, 58, 51, 44,
        34, 109, 117, 108, 116, 105, 65, 99, 99, 111, 117, 110, 116, 34, 58, 52, 125>> }

\* the base64 encodings of the texts
Encodings == {Base64Encode(t) : t \in {PairingJson} \cup OtherTexts}

\* an encoding with one character replaced by '!' or by 'A', or removed
Damaged(e) ==
    {[e EXCEPT ![i] = 33] : i \in DOMAIN e}
    \cup {[e EXCEPT ![i] = 65] : i \in DOMAIN e}
    \cup {SubSeq(e, 1, i - 1) \o SubSeq(e, i + 1, Len(e)) : i \in DOMAIN e}

\* the empty token and "!!!" besides
PairingStrings ==
    Encodings \cup UNION {Damaged(e) : e \in Encodings} \cup {<<>>, <<33, 33, 33>>}

InitDecode ==
    /\ InitOut
    /\ InitIn
    /\ InitText
    /\ pairingString \in PairingStrings
    /\ decoded = [status |-> "idle"]
    /\ pairingCall = NoCall

NextCodec == decodePairingString

SpecCodec == InitDecode /\ [][NextCodec /\ UNCHANGED <<outVars, inVars, textVars>>]_vars

(***************************************************************************)
(* Claims about the pairing codec.                                         *)
(***************************************************************************)
\* a valid encoding: characters of the base64 alphabet in groups of four, with
\* '=' only as padding of the last group
ValidBase64(str) ==
    /\ Len(str) % 4 = 0
    /\ \A i \in DOMAIN str :
          \/ str[i] \notin {45, 95} /\ B64Val(str[i]) >= 0
          \/ str[i] = 61 /\ i > Len(str) - 2 /\ \A j \in i..Len(str) : str[j] = 61

Member(obj, key) ==
    LET at == {i \in DOMAIN obj.v : obj.v[i].k = key}
    IN IF at = {} THEN [t |-> "none", v |-> <<>>]
       ELSE obj.v[CHOOSE i \in at : \A j \in at : j <= i].v

\* the shape {metadata, topic, network, multiAccount} of a PairingData
HasPairingDataShape(val) ==
    /\ val.t = "obj"
    /\ Member(val, <<109, 101, 116, 97, 100, 97, 116, 97>>).t = "obj"
    /\ Member(val, <<116, 111, 112, 105, 99>>).t = "str"
    /\ Member(val, <<110, 101, 116, 119, 111, 114, 107>>).t = "str"
    /\ Member(val, <<109, 117, 108, 116, 105, 65, 99, 99, 111, 117, 110, 116>>).t = "bool"

Malformed(str) ==
    \/ ~ValidBase64(str)
    \/ ~JSONParse(Utf8Decode(Base64Decode(str))).ok
    \/ ~HasPairingDataShape(JSONParse(Utf8Decode(Base64Decode(str))).v)

\* C10: decodePairingString fails with MalformedPairingString for every token that
\* is not a valid encoding or whose content has not the shape of a PairingData; it
\* never returns a value for such a token.
C10_MalformedTokenFails ==
    (decoded.status # "idle" /\ Malformed(pairingString))
    => /\ decoded.status = "threw"
       /\ decoded.error = "MalformedPairingString"

(***************************************************************************)
(* Pairing strings: generatePairingString (lines 211-229).                 *)
(***************************************************************************)
\* the characters of the identifiers the model uses as topics and keys
Chars(id) ==
    CASE id = "t1" -> <<116, 49>>
      [] id = "t2" -> <<116, 50>>
      [] id = "k1" -> <<107, 49>>
      [] id = "k2" -> <<107, 50>>
      [] id = "P1" -> <<80, 49>>
      [] id = "G1" -> <<71, 49>>
      [] id = "P?" -> <<80, 63>>

IsHighSurrogate(c) == c >= 55296 /\ c <= 56319
IsLowSurrogate(c) == c >= 56320 /\ c <= 57343

\* the code unit at i is one half of a surrogate pair
InPair(cs, i) ==
    \/ IsHighSurrogate(cs[i]) /\ i < Len(cs) /\ IsLowSurrogate(cs[i + 1])
    \/ IsLowSurrogate(cs[i]) /\ i > 1 /\ IsHighSurrogate(cs[i - 1])

HexDigit(v) == IF v < 10 THEN 48 + v ELSE 87 + v

\* \uXXXX
UnicodeEscape(c) ==
    <<92, 117, HexDigit(c \div 4096), HexDigit((c \div 256) % 16),
      HexDigit((c \div 16) % 16), HexDigit(c % 16)>>

\* JSON.stringify of the code unit at i of a string
QuoteChar(cs, i) ==
    LET c == cs[i]
    IN CASE c = 34 -> <<92, 34>>
         [] c = 92 -> <<92, 92>>
         [] c = 8 -> <<92, 98>>
         [] c = 12 -> <<92, 102>>
         [] c = 10 -> <<92, 110>>
         [] c = 13 -> <<92, 114>>
         [] c = 9 -> <<92, 116>>
         [] c < 32 /\ c \notin {8, 9, 10, 12, 13} -> UnicodeEscape(c)
         [] (IsHighSurrogate(c) \/ IsLowSurrogate(c)) /\ ~InPair(cs, i) -> UnicodeEscape(c)
         [] OTHER -> <<c>>

\* JSON.stringify of a string
QuoteString(cs) == <<34>> \o Flatten([i \in 1..Len(cs) |-> QuoteChar(cs, i)]) \o <<34>>

\* the texts of a sequence joined by commas
JoinComma(texts) ==
    Flatten([i \in 1..Len(texts) |-> IF i = 1 THEN texts[i] ELSE <<44>> \o texts[i]])

\* JSON.stringify of a value made of objects, arrays, strings, Booleans and null
RECURSIVE JSONStringify(_)
JSONStringify(val) ==
    CASE val.t = "str" -> QuoteString(val.v)
      [] val.t = "bool" -> IF val.v THEN <<116, 114, 117, 101>> ELSE <<102, 97, 108, 115, 101>>
      [] val.t = "null" -> <<110, 117, 108, 108>>
      [] val.t = "arr" ->
             <<91>> \o JoinComma([i \in 1..Len(val.v) |-> JSONStringify(val.v[i])]) \o <<93>>
      [] val.t = "obj" ->
             <<123>>
             \o JoinComma([i \in 1..Len(val.v) |->
                    QuoteString(val.v[i].k) \o <<58>> \o JSONStringify(val.v[i].v)])
             \o <<125>>

\* Buffer.from(string): the UTF-8 bytes of the code unit at i
Utf8Bytes(cs, i) ==
    LET c == cs[i]
        cp == (c - 55296) * 1024 + (cs[i + 1] - 56320) + 65536
    IN IF c < 128 THEN <<c>>
       ELSE IF c < 2048 THEN <<192 + (c \div 64), 128 + (c % 64)>>
       ELSE IF IsHighSurrogate(c) /\ InPair(cs, i)
            THEN <<240 + (cp \div 262144), 128 + ((cp \div 4096) % 64),
                   128 + ((cp \div 64) % 64), 128 + (cp % 64)>>
       ELSE IF IsLowSurrogate(c) /\ InPair(cs, i) THEN <<>>
       ELSE IF IsHighSurrogate(c) \/ IsLowSurrogate(c) THEN <<239, 191, 189>>
       ELSE <<224 + (c \div 4096), 128 + ((c \div 64) % 64), 128 + (c % 64)>>

\* Buffer.from(string)
Utf8Encode(cs) == Flatten([i \in 1..Len(cs) |-> Utf8Bytes(cs, i)])

StrValue(cs) == [t |-> "str", v |-> cs]
Field(name, val) == [k |-> name, v |-> val]

\* the metadata object as JSON.stringify sees it: a property that is undefined is
\* left out
MetadataValue(md) ==
    [t |-> "obj",
     v |-> <<Field(<<110, 97, 109, 101>>, StrValue(md.name)),
             Field(<<100, 101, 115, 99, 114, 105, 112, 116, 105, 111, 110>>,
                   StrValue(md.description)),
             Field(<<105, 99, 111, 110>>, StrValue(md.icon)),
             Field(<<117, 114, 108>>, StrValue(md.url))>>
           \o (IF md.publicKey = Undefined THEN <<>>
               ELSE <<Field(<<112, 117, 98, 108, 105, 99, 75, 101, 121>>,
                            StrValue(Chars(md.publicKey)))>>)]

\* a variant of the PairingData without its multiAccount property
PairingDataValueNoMultiAccount(md, topic, network, multiAccount) ==
    [t |-> "obj",
     v |-> <<Field(<<109, 101, 116, 97, 100, 97, 116, 97>>, MetadataValue(md)),
             Field(<<116, 111, 112, 105, 99>>, StrValue(Chars(topic))),
             Field(<<110, 101, 116, 119, 111, 114, 107>>, StrValue(network))>>]

\* lines 214-219: the PairingData {metadata, topic, network, multiAccount}
PairingDataValue(md, topic, network, multiAccount) ==
    [t |-> "obj",
     v |-> <<Field(<<109, 101, 116, 97, 100, 97, 116, 97>>, MetadataValue(md)),
             Field(<<116, 111, 112, 105, 99>>, StrValue(Chars(topic))),
             Field(<<110, 101, 116, 119, 111, 114, 107>>, StrValue(network)),
             Field(<<109, 117, 108, 116, 105, 65, 99, 99, 111, 117, 110, 116>>,
                   [t |-> "bool", v |-> multiAccount])>>]

\* generatePairingString(state, network, multiAccount): data.metadata is
\* this.metadata itself, so lines 221-224 sanitize this.metadata in place
generatePairingString(state, network, multiAccount) ==
    /\ metadata.defined
    /\ pairingCall.n < MaxTokens
    /\ metadata' = SanitizeMetadata(metadata)
    /\ pairingString' = Base64Encode(Utf8Encode(JSONStringify(
           PairingDataValue(SanitizeMetadata(metadata), state.topic,
                            sanitizeString(network), multiAccount))))
    /\ decoded' = [status |-> "idle"]
    /\ pairingCall' = [called |-> TRUE, n |-> pairingCall.n + 1, state |-> state,
                       network |-> network, multiAccount |-> multiAccount]
    /\ UNCHANGED <<privateKey, publicKeys, calls, relayLog, decryptionKeys, nextId>>

\* the network and multiAccount arguments of generatePairingString:
\* ("testnet", false) and ("a/b", true)
PairingRequests ==
    {<<<<116, 101, 115, 116, 110, 101, 116>>, FALSE>>, <<<<97, 47, 98>>, TRUE>>}

\* window.location.origin of a page with an opaque origin: "null"
OpaqueOrigin == <<110, 117, 108, 108>>

\* the metadata of an initialised instance, as init leaves it (lines 53-69), each
\* with an icon of its own:
\*   name "A", description "x y", icon "i", url "null"
\*   name "A&B", description "x y", icon "j", url "http://a.b"
\*   name "A", description "d", icon "k", url "http://a.b"
InitialisedMetadata ==
    { [defined |-> TRUE, name |-> <<65>>, description |-> <<120, 32, 121>>,
       icon |-> <<105>>, url |-> OpaqueOrigin, publicKey |-> getPublicKey("g1")],
      [defined |-> TRUE, name |-> <<65, 38, 66>>, description |-> <<120, 32, 121>>,
       icon |-> <<106>>, url |-> WindowOrigin, publicKey |-> getPublicKey("g1")],
      [defined |-> TRUE, name |-> <<65>>, description |-> <<100>>,
       icon |-> <<107>>, url |-> WindowOrigin, publicKey |-> getPublicKey("g1")] }

\* the instance after init(metadata) has completed with a generated key
InitPairing ==
    /\ metadata \in InitialisedMetadata
    /\ privateKey = "g1"
    /\ publicKeys = <<>>
    /\ calls = <<[Call("init", Undefined, Undefined, <<>>, <<>>)
                    EXCEPT !.status = "fulfilled", !.value = [privKey |-> "g1"]]>>
    /\ relayLog = <<[Request("init", Undefined, NoEnvelope, Undefined, 1, TRUE)
                       EXCEPT !.status = "resolved"]>>
    /\ decryptionKeys = {"g1"}
    /\ nextId = 1
    /\ InitIn
    /\ InitCodec
    /\ InitText

\* the ConnectionStates connect and pair have returned
ReturnedStates ==
    {calls[c].value : c \in {d \in DOMAIN calls : /\ calls[d].op \in {"connect", "pair"}
                                                   /\ calls[d].status = "fulfilled"}}

\* the calls of the operation op made so far
CallsOf(op) == {c \in DOMAIN calls : calls[c].op = op}

\* one session of an initialised instance: it connects once and pairs once, in
\* either order, and generates and decodes pairing strings in between
NextPairing ==
    \/ /\ \/ /\ CallsOf("connect") = {}
             /\ \E t \in Topics \cup {Undefined} : connect(t, FALSE, Undefined)
          \/ \E i \in DOMAIN relayLog, ok \in BOOLEAN : connectResume(i, ok)
          \/ /\ CallsOf("pair") = {}
             /\ \E t \in PairingTopics, k \in PairingKeys, a \in AccountLists, n \in Networks :
                    pair(t, k, a, n)
          \/ \E i \in DOMAIN relayLog, ok \in BOOLEAN : pairResume(i, ok)
          \/ \E i \in DOMAIN relayLog, ok \in BOOLEAN : pairPublishSettle(i, ok)
       /\ UNCHANGED codecVars
    \/ \E state \in ReturnedStates, r \in PairingRequests :
           generatePairingString(state, r[1], r[2])
    \/ decodePairingString /\ UNCHANGED outVars

SpecPairing == InitPairing /\ [][NextPairing /\ UNCHANGED <<inVars, textVars>>]_vars

(***************************************************************************)
(* Claims about pairing strings.                                           *)
(***************************************************************************)
\* the metadata init was given, as init left it: the icon, which no operation
\* writes, tells which one it is
MetadataA == CHOOSE md \in InitialisedMetadata : md.icon = metadata.icon

IsSafeText(cs) == \A i \in DOMAIN cs : cs[i] \in SafeClass

\* the names of the members of an object
MemberNames(obj) == {obj.v[i].k : i \in DOMAIN obj.v}

\* val is a PairingData of the given topic and multiAccount whose metadata has the
\* given publicKey and icon
IsPairingDataOf(val, topic, multiAccount, publicKey, icon) ==
    /\ val.t = "obj"
    /\ Len(val.v) = 4
    /\ MemberNames(val) = {<<109, 101, 116, 97, 100, 97, 116, 97>>, <<116, 111, 112, 105, 99>>,
                           <<110, 101, 116, 119, 111, 114, 107>>,
                           <<109, 117, 108, 116, 105, 65, 99, 99, 111, 117, 110, 116>>}
    /\ Member(val, <<116, 111, 112, 105, 99>>) = StrValue(Chars(topic))
    /\ Member(val, <<109, 117, 108, 116, 105, 65, 99, 99, 111, 117, 110, 116>>)
           = [t |-> "bool", v |-> multiAccount]
    /\ Member(val, <<110, 101, 116, 119, 111, 114, 107>>).t = "str"
    /\ LET md == Member(val, <<109, 101, 116, 97, 100, 97, 116, 97>>)
       IN /\ md.t = "obj"
          /\ Len(md.v) = 5
          /\ MemberNames(md) = {<<110, 97, 109, 101>>,
                                <<100, 101, 115, 99, 114, 105, 112, 116, 105, 111, 110>>,
                                <<105, 99, 111, 110>>, <<117, 114, 108>>,
                                <<112, 117, 98, 108, 105, 99, 75, 101, 121>>}
          /\ Member(md, <<112, 117, 98, 108, 105, 99, 75, 101, 121>>) = StrValue(Chars(publicKey))
          /\ Member(md, <<105, 99, 111, 110>>) = StrValue(icon)
          /\ Member(md, <<110, 97, 109, 101>>).t = "str"
          /\ Member(md, <<100, 101, 115, 99, 114, 105, 112, 116, 105, 111, 110>>).t = "str"
          /\ Member(md, <<117, 114, 108>>).t = "str"

\* the free-text fields of a decoded PairingData
DecodedNetwork == Member(decoded.value, <<110, 101, 116, 119, 111, 114, 107>>).v
DecodedMetadata == Member(decoded.value, <<109, 101, 116, 97, 100, 97, 116, 97>>)
DecodedName == Member(DecodedMetadata, <<110, 97, 109, 101>>).v
DecodedDescription ==
    Member(DecodedMetadata, <<100, 101, 115, 99, 114, 105, 112, 116, 105, 111, 110>>).v
DecodedUrl == Member(DecodedMetadata, <<117, 114, 108>>).v

\* the token of the last generatePairingString call has been decoded
TokenDecoded == pairingCall.called /\ decoded.status # "idle"

\* C11: for a PairingData p whose name, description, url and network contain only
\* characters of the safe class, decodePairingString of the token that
\* generatePairingString built from p yields a record equal to p.
C11_RoundTrip ==
    (/\ TokenDecoded
     /\ IsSafeText(MetadataA.name) /\ IsSafeText(MetadataA.description)
     /\ IsSafeText(MetadataA.url) /\ IsSafeText(pairingCall.network))
    => /\ decoded.status = "returned"
       /\ IsPairingDataOf(decoded.value, pairingCall.state.topic, pairingCall.multiAccount,
                          MetadataA.publicKey, MetadataA.icon)
       /\ DecodedNetwork = pairingCall.network
       /\ DecodedName = MetadataA.name
       /\ DecodedDescription = MetadataA.description
       /\ DecodedUrl = MetadataA.url

\* C11 witness: a token built from safe text on a topic of a connect has been
\* decoded to a value.
C11_Witness ==
    /\ TokenDecoded
    /\ decoded.status = "returned"
    /\ metadata.url = OpaqueOrigin
    /\ pairingCall.network = <<116, 101, 115, 116, 110, 101, 116>>
    /\ pairingCall.multiAccount = FALSE
    /\ DecodedUrl = OpaqueOrigin
    /\ pairingCall.n = 2

\* C13: after connect() has returned, decodePairingString of the token of any
\* generatePairingString(state, network, multiAccount) call, whatever
\* generatePairingString and pair calls came before it, yields {metadata with each free-text field of metadataA sanitized
\* once, topic: state.topic, network: sanitize(network), multiAccount}.
C13_TokenHoldsMetadataSanitizedOnce ==
    (TokenDecoded /\ \E c \in CallsOf("connect") : calls[c].status = "fulfilled")
    => /\ decoded.status = "returned"
       /\ IsPairingDataOf(decoded.value, pairingCall.state.topic, pairingCall.multiAccount,
                          MetadataA.publicKey, MetadataA.icon)
       /\ IsEscapeOf(DecodedNetwork, pairingCall.network)
       /\ IsEscapeOf(DecodedName, MetadataA.name)
       /\ IsEscapeOf(DecodedDescription, MetadataA.description)
       /\ IsEscapeOf(DecodedUrl, MetadataA.url)

(***************************************************************************)
(* The sanitizer on its own: sanitizeString (lines 248-253) applied to a   *)
(* string, and again to what it returned, as the in-place sanitization of  *)
(* lines 164-167 and 221-224 does on repeated calls.                       *)
(***************************************************************************)
\* A z 5 _ . space & # ; e-acute, and a high surrogate
SanitizerAlphabet == {65, 122, 53, 95, 46, 32, 38, 35, 59, 233, 55357}

\* the strings up to MaxStrLen over the alphabet, and "A&B.C"
SanitizerInputs ==
    UNION {[1..n -> SanitizerAlphabet] : n \in 0..MaxStrLen} \cup {<<65, 38, 66, 46, 67>>}

InitSanitize ==
    /\ InitOut
    /\ InitIn
    /\ InitCodec
    /\ rawString \in SanitizerInputs
    /\ sanitized = <<>>

\* one call of sanitizeString: on the string first, then on the result of the call before
sanitizeStringCall ==
    /\ Len(sanitized) < MaxPasses
    /\ sanitized' = Append(sanitized,
           sanitizeString(IF sanitized = <<>> THEN rawString ELSE sanitized[Len(sanitized)]))
    /\ UNCHANGED rawString

NextSanitize == sanitizeStringCall

SpecSanitize == InitSanitize /\ [][NextSanitize /\ UNCHANGED <<outVars, inVars, codecVars>>]_vars

(***************************************************************************)
(* Claims about the sanitizer.                                             *)
(***************************************************************************)
\* the argument of the k-th call
SanitizeArgument(k) == IF k = 1 THEN rawString ELSE sanitized[k - 1]

\* C14: sanitize maps each character independently: a character of the safe class
\* is output unchanged, any other character c becomes '&#' decimal(c) ';'; "A&B.C"
\* gives "A&#38;B.C".
C14_SanitizeEscapesEachCharacter ==
    \A k \in DOMAIN sanitized :
        /\ IsEscapeOf(sanitized[k], SanitizeArgument(k))
        /\ (SanitizeArgument(k) = <<65, 38, 66, 46, 67>>
              => sanitized[k] = <<65, 38, 35, 51, 56, 59, 66, 46, 67>>)

\* C14 witness: "A&B.C" has been sanitized to "A&#38;B.C".
C14_Witness ==
    /\ rawString = <<65, 38, 66, 46, 67>>
    /\ Len(sanitized) >= 1
    /\ sanitized[1] = <<65, 38, 35, 51, 56, 59, 66, 46, 67>>

====
